---- MODULE Spec2Model ----
(***************************************************************************)
(* Model of src/app.py: the Telegram admin conversation (a                 *)
(* python-telegram-bot ConversationHandler), the SQL catalog it writes     *)
(* (tables manga, chapter, page) and the ZIP chapter importer.             *)
(*                                                                         *)
(* Strings whose characters matter (titles, chapter numbers, folder and    *)
(* file names, callback arguments, file ids) are sequences of              *)
(* one-character strings, so that the regular expression, the glob         *)
(* patterns, float() / str() and the path ordering are computed, not       *)
(* assumed.                                                                *)
(***************************************************************************)
EXTENDS Integers, Sequences, FiniteSets, TLC

VARIABLES
    mangas,      \* committed rows of table manga
    chapters,    \* committed rows of table chapter
    pages,       \* committed rows of table page
    conv,        \* ConversationHandler state per (chat, user) key
    user_data,   \* context.user_data per user: a dict (function on its keys)
    imp,         \* position of a running add_chapter_zip_process
    upd,         \* the update handled last
    out,         \* the messages the bot sent while handling it
    raised,      \* whether its handler ended with an uncaught exception
    supplied,    \* history: per user, the texts last sent at the title and description prompts,
                 \* and per chat what the user chose and sent in the running conversation
    txn,         \* rows the importing session has flushed but not committed
    web          \* the request the web application is serving and what it has read

vars == <<mangas, chapters, pages, conv, user_data, imp, upd, out, raised, supplied, txn, web>>

store == <<mangas, chapters, pages>>

----------------------------------------------------------------------------
(* Bounds of the model.                                                    *)

MaxMangaId == 1          \* manga ids stay within 1..MaxMangaId
MaxChapterId == 1        \* chapter ids stay within 1..MaxChapterId
MaxPages == 1            \* photos collected for one manual chapter
CreateMaxMangaId == 2    \* manga ids under SpecCreate
ImportMaxChapterId == 3  \* chapter ids under SpecImport
ManualMaxChapterId == 2  \* chapter ids under SpecChapters
MaxDirs == 3             \* directories of an archive under SpecImport

----------------------------------------------------------------------------
(* Characters and strings.                                                 *)

Digits == <<"0", "1", "2", "3", "4", "5", "6", "7", "8", "9">>

IsDigit(c) == \E i \in 1..10 : Digits[i] = c

DigitVal(c) == (CHOOSE i \in 1..10 : Digits[i] = c) - 1

\* Code point order of the characters that occur in file names.
Alphabet == <<".", "0", "1", "2", "3", "4", "5", "6", "7", "8", "9",
              "B", "C", "E", "G", "J", "N", "P", "T", "X",
              "a", "b", "c", "d", "e", "g", "h", "j", "n", "p", "t", "x">>

Ord(c) == CHOOSE i \in 1..Len(Alphabet) : Alphabet[i] = c

Upper == <<"B", "C", "E", "G", "J", "N", "P", "T", "X">>
Lower == <<"b", "c", "e", "g", "j", "n", "p", "t", "x">>

\* str.lower() of one character
LowerChar(c) ==
    IF \E i \in 1..Len(Upper) : Upper[i] = c
    THEN Lower[CHOOSE i \in 1..Len(Upper) : Upper[i] = c]
    ELSE c

LowerStr(s) == [i \in 1..Len(s) |-> LowerChar(s[i])]

\* s < t for Python str (lexicographic by code point)
RECURSIVE StrLess(_, _)
StrLess(s, t) ==
    IF t = <<>> THEN FALSE
    ELSE IF s = <<>> THEN TRUE
    ELSE IF s[1] # t[1] THEN Ord(s[1]) < Ord(t[1])
    ELSE StrLess(Tail(s), Tail(t))

Pow10(e) == IF e = 0 THEN 1 ELSE IF e = 1 THEN 10 ELSE IF e = 2 THEN 100 ELSE 1000

\* int(s) of a decimal digit string
RECURSIVE DecVal(_)
DecVal(s) == IF s = <<>> THEN 0 ELSE 10 * DecVal(SubSeq(s, 1, Len(s) - 1)) + DigitVal(s[Len(s)])

\* str(n) of a natural number
RECURSIVE DecStr(_)
DecStr(n) == IF n < 10 THEN <<Digits[n + 1]>> ELSE DecStr(n \div 10) \o <<Digits[(n % 10) + 1]>>

\* whether int(s) succeeds (s a callback argument)
IsInt(s) == s # <<>> /\ \A i \in 1..Len(s) : IsDigit(s[i])

----------------------------------------------------------------------------
(* Python floats of the short decimal literals that occur: [n, e] stands   *)
(* for n / 10^e, with e = 0 or n not divisible by 10.                      *)

RECURSIVE StripZeros(_)
StripZeros(s) ==
    IF s # <<>> /\ s[Len(s)] = "0" THEN StripZeros(SubSeq(s, 1, Len(s) - 1)) ELSE s

\* index of the first "." in s, or Len(s) + 1
RECURSIVE DotAt(_, _)
DotAt(s, i) == IF i > Len(s) \/ s[i] = "." THEN i ELSE DotAt(s, i + 1)

\* float(s) for s of the form digits[.digits] or -digits[.digits]
FloatOf(s) ==
    LET neg == s # <<>> /\ s[1] = "-"
        t == IF neg THEN Tail(s) ELSE s
        d == DotAt(t, 1)
        ip == SubSeq(t, 1, d - 1)
        fp == StripZeros(SubSeq(t, d + 1, Len(t)))
        n == DecVal(ip \o fp)
    IN [n |-> IF neg THEN 0 - n ELSE n, e |-> Len(fp)]

\* whether float(s) succeeds, for the strings the model enters as chapter numbers
IsFloat(s) ==
    LET d == DotAt(s, 1)
    IN /\ \A i \in 1..Len(s) : i # d => IsDigit(s[i])
       /\ \E i \in 1..Len(s) : IsDigit(s[i])

\* digits of n, left-padded with zeros to width w
RECURSIVE PadStr(_, _)
PadStr(n, w) == IF w = 0 THEN <<>> ELSE PadStr(n \div 10, w - 1) \o <<Digits[(n % 10) + 1]>>

\* str(x): str(-1) for the int sentinel, repr of a float otherwise ("2.0", "1.5")
FloatStr(x) ==
    IF x.n < 0 THEN <<"-">> \o DecStr(0 - x.n)
    ELSE DecStr(x.n \div Pow10(x.e)) \o <<".">> \o
         (IF x.e = 0 THEN <<"0">> ELSE PadStr(x.n % Pow10(x.e), x.e))

FloatLess(x, y) == x.n * Pow10(y.e) < y.n * Pow10(x.e)

----------------------------------------------------------------------------
(* extract_number: every non-overlapping match of "digits, optional dot,  *)
(* optional digits" (re.findall), the last one as a float, -1 when there   *)
(* is none.                                                                *)

\* last index j >= i - 1 with s[i..j] all digits
RECURSIVE DigitRun(_, _)
DigitRun(s, i) == IF i <= Len(s) /\ IsDigit(s[i]) THEN DigitRun(s, i + 1) ELSE i - 1

\* end of the match of \d+\.?\d* that starts at the digit s[i]
MatchEnd(s, i) ==
    LET j == DigitRun(s, i)
    IN IF j + 1 <= Len(s) /\ s[j + 1] = "." THEN DigitRun(s, j + 2) ELSE j

RECURSIVE FindAllFrom(_, _)
FindAllFrom(s, i) ==
    IF i > Len(s) THEN <<>>
    ELSE IF IsDigit(s[i])
         THEN <<SubSeq(s, i, MatchEnd(s, i))>> \o FindAllFrom(s, MatchEnd(s, i) + 1)
         ELSE FindAllFrom(s, i + 1)

NoNumber == [n |-> -1, e |-> 0]

extract_number_first(text) ==
    LET numbers == FindAllFrom(text, 1)
    IN IF numbers # <<>> THEN FloatOf(numbers[1]) ELSE NoNumber

extract_number(text) ==
    LET numbers == FindAllFrom(text, 1)
    IN IF numbers # <<>> THEN FloatOf(numbers[Len(numbers)]) ELSE NoNumber

----------------------------------------------------------------------------
(* Paths of an extracted archive.  A directory is [name, files]: its own   *)
(* name and the names of the files directly in it, in enumeration order.   *)

\* Path.suffix
Suffix(name) ==
    LET dots == {i \in 1..Len(name) : name[i] = "."}
    IN IF dots = {} THEN <<>>
       ELSE LET p == CHOOSE i \in dots : \A j \in dots : j <= i
            IN IF p > 1 /\ p < Len(name) THEN SubSeq(name, p, Len(name)) ELSE <<>>

ImageSuffixes == {<<".", "j", "p", "g">>, <<".", "j", "p", "e", "g">>, <<".", "p", "n", "g">>}

\* any(f.suffix.lower() in ['.jpg', '.jpeg', '.png'] for f in d.iterdir())
HasImage(d) == \E i \in 1..Len(d.files) : LowerStr(Suffix(d.files[i])) \in ImageSuffixes

\* glob pattern '*.[xX][yY][zZ]' for the lower-case extension ext
GlobExt(name, ext) ==
    /\ Len(name) >= Len(ext)
    /\ LET tail == SubSeq(name, Len(name) - Len(ext) + 1, Len(name))
       IN tail[1] = "." /\ LowerStr(tail) = ext

SelectSeq2(s, ext) == SelectSeq(s, LAMBDA f : GlobExt(f, ext))

\* list(chap_dir.glob('*.[jJ][pP][gG]')) + list(chap_dir.glob('*.[pP][nN][gG]'))
Globbed(d) ==
    SelectSeq2(d.files, <<".", "j", "p", "g">>) \o SelectSeq2(d.files, <<".", "p", "n", "g">>)

\* sorted(): stable insertion, by Path order
RECURSIVE InsertPath(_, _)
InsertPath(s, x) ==
    IF s = <<>> THEN <<x>>
    ELSE IF StrLess(x, s[1]) THEN <<x>> \o s
    ELSE <<s[1]>> \o InsertPath(Tail(s), x)

UnsortedPaths(s) == s

RECURSIVE SortedPaths(_)
SortedPaths(s) ==
    IF s = <<>> THEN <<>> ELSE InsertPath(SortedPaths(SubSeq(s, 1, Len(s) - 1)), s[Len(s)])

\* image_files (line 318)
image_files(d) == SortedPaths(Globbed(d))

\* sorted(chapter_dirs, key=lambda d: extract_number(d.name)): stable
RECURSIVE InsertDir(_, _)
InsertDir(s, d) ==
    IF s = <<>> THEN <<d>>
    ELSE IF FloatLess(extract_number(d.name), extract_number(s[1].name)) THEN <<d>> \o s
    ELSE <<s[1]>> \o InsertDir(Tail(s), d)

RECURSIVE SortedDirs(_)
SortedDirs(s) ==
    IF s = <<>> THEN <<>> ELSE InsertDir(SortedDirs(SubSeq(s, 1, Len(s) - 1)), s[Len(s)])

\* chapter_dirs (line 298)
chapter_dirs(dirs) == SelectSeq(dirs, HasImage)

UnsortedChapters(dirs) == chapter_dirs(dirs)

\* sorted_chapters (line 307)
sorted_chapters(dirs) == SortedDirs(chapter_dirs(dirs))

\* context.bot.send_photo(...).photo[-1].file_id: the reference of a relayed file
Relay(name) == <<"@">> \o name

----------------------------------------------------------------------------
(* Actors, chats and the inputs they send.                                 *)

ADMIN_USER_ID == 1

Users == {ADMIN_USER_ID, ADMIN_USER_ID + 1}

Chats == {"private", "group"}

\* message texts: titles, descriptions and chapter numbers are free text
Texts == {<<"2">>, <<"x">>}

\* file ids of photos the admin sends (update.message.photo[-1].file_id)
Photos == {<<"P", "1">>, <<"P", "2">>}

\* arguments carried by the callback tokens manga_<id>, delchap_<id>, delmanga_yes_<id>:
\* the ids up to n, and one that is no number
IdArgs(n) == {DecStr(i) : i \in 1..n} \cup {<<"x">>}

\* What the environment of a specification sends and how far ids may grow:
\* texts, photos, archives, whether a database operation may fail (dbfails),
\* and the caps on manga ids, chapter ids and collected pages.
Env(texts, photos, archives, dbfails, maxManga, maxChapter, maxPages) ==
    [texts |-> texts, photos |-> photos, archives |-> archives, dbfails |-> dbfails,
     maxManga |-> maxManga, maxChapter |-> maxChapter, maxPages |-> maxPages]

StaticCallbacks ==
    {"add_manga", "manage_manga", "main_menu", "add_chapter", "update_info",
     "delete_chapter", "delete_manga", "back_to_manage", "zip_upload", "manual_upload"}

IdCallbacks == {"manga_", "delchap_", "delmanga_yes_"}

In(kind, data) == [kind |-> kind, data |-> data]

Msg(tag, arg) == [tag |-> tag, arg |-> arg]

Said(tag) == \E i \in 1..Len(out) : out[i].tag = tag

----------------------------------------------------------------------------
(* Conversation states (lines 123-129) and the handler table of            *)
(* run_bot.conv_handler (lines 450-494).                                   *)

END == "END"
START_ROUTES == "START_ROUTES"
ADD_MANGA_TITLE == "ADD_MANGA_TITLE"
ADD_MANGA_DESC == "ADD_MANGA_DESC"
ADD_MANGA_COVER == "ADD_MANGA_COVER"
MANAGE_SELECT_MANGA == "MANAGE_SELECT_MANGA"
MANAGE_ACTION_MENU == "MANAGE_ACTION_MENU"
ADD_CHAPTER_METHOD == "ADD_CHAPTER_METHOD"
ADD_CHAPTER_NUMBER == "ADD_CHAPTER_NUMBER"
ADD_CHAPTER_PAGES == "ADD_CHAPTER_PAGES"
ADD_CHAPTER_ZIP == "ADD_CHAPTER_ZIP"
DELETE_CHAPTER_SELECT == "DELETE_CHAPTER_SELECT"
DELETE_MANGA_CONFIRM == "DELETE_MANGA_CONFIRM"

ActiveStates ==
    {START_ROUTES, ADD_MANGA_TITLE, ADD_MANGA_DESC, ADD_MANGA_COVER, MANAGE_SELECT_MANGA,
     MANAGE_ACTION_MENU, ADD_CHAPTER_METHOD, ADD_CHAPTER_NUMBER, ADD_CHAPTER_PAGES,
     ADD_CHAPTER_ZIP, DELETE_CHAPTER_SELECT, DELETE_MANGA_CONFIRM}

\* the handlers of `states`: the first one of the state whose filter accepts the update
StateHandler(state, inp) ==
    CASE state = START_ROUTES /\ inp.kind = "add_manga" -> "add_manga_start"
      [] state = START_ROUTES /\ inp.kind = "manage_manga" -> "manage_manga_start"
      [] state = ADD_MANGA_TITLE /\ inp.kind = "text" -> "add_manga_title"
      [] state = ADD_MANGA_DESC /\ inp.kind = "text" -> "add_manga_desc"
      [] state = ADD_MANGA_COVER /\ inp.kind = "photo" -> "add_manga_cover"
      [] state = MANAGE_SELECT_MANGA /\ inp.kind = "manga_" -> "manage_action_menu"
      [] state = MANAGE_SELECT_MANGA /\ inp.kind = "main_menu" -> "to_main_menu"
      [] state = MANAGE_ACTION_MENU /\ inp.kind = "add_chapter" -> "add_chapter_method"
      [] state = MANAGE_ACTION_MENU /\ inp.kind = "update_info" -> "update_info_start"
      [] state = MANAGE_ACTION_MENU /\ inp.kind = "delete_chapter" -> "delete_chapter_select"
      [] state = MANAGE_ACTION_MENU /\ inp.kind = "delete_manga" -> "delete_manga_confirm"
      [] state = MANAGE_ACTION_MENU /\ inp.kind = "back_to_manage" -> "manage_manga_start"
      [] state = ADD_CHAPTER_METHOD /\ inp.kind = "zip_upload" -> "add_chapter_zip_start"
      [] state = ADD_CHAPTER_METHOD /\ inp.kind = "manual_upload" -> "add_chapter_manual_start"
      [] state = ADD_CHAPTER_METHOD /\ inp.kind = "manga_" -> "manage_action_menu"
      [] state = ADD_CHAPTER_NUMBER /\ inp.kind = "text" -> "add_chapter_pages_start"
      [] state = ADD_CHAPTER_PAGES /\ inp.kind = "photo" -> "add_chapter_page_collect"
      [] state = ADD_CHAPTER_PAGES /\ inp.kind = "done" -> "add_chapter_manual_save"
      [] state = ADD_CHAPTER_ZIP /\ inp.kind = "zip" -> "add_chapter_zip_process"
      [] state = DELETE_CHAPTER_SELECT /\ inp.kind = "delchap_" -> "delete_chapter_confirm"
      [] state = DELETE_CHAPTER_SELECT /\ inp.kind = "manga_" -> "manage_action_menu"
      [] state = DELETE_MANGA_CONFIRM /\ inp.kind = "delmanga_yes_" -> "delete_manga_execute"
      [] state = DELETE_MANGA_CONFIRM /\ inp.kind = "manga_" -> "manage_action_menu"
      [] OTHER -> "none"

\* a dispatch without the fallbacks, to compare with
HandlerNoFallback(state, inp) ==
    IF state = END
    THEN IF inp.kind = "start" THEN "start" ELSE "none"
    ELSE StateHandler(state, inp)

\* a dispatch with allow_reentry: /start is accepted in every state
HandlerReentry(state, inp) ==
    IF inp.kind = "start" THEN "start"
    ELSE IF state = END THEN "none"
    ELSE IF StateHandler(state, inp) # "none" THEN StateHandler(state, inp)
    ELSE IF inp.kind = "cancel" THEN "end_conversation"
    ELSE "none"

\* ConversationHandler: without a conversation only the entry points are tried;
\* within one, the handlers of its state and then the fallbacks
Handler(state, inp) ==
    IF state = END
    THEN IF inp.kind = "start" THEN "start" ELSE "none"
    ELSE IF StateHandler(state, inp) # "none" THEN StateHandler(state, inp)
    ELSE IF inp.kind = "cancel" THEN "end_conversation"
    ELSE "none"

----------------------------------------------------------------------------
(* The database.                                                           *)

MaxOf(S) == CHOOSE x \in S : \A y \in S : y <= x

\* the id SQLite gives a new row of an INTEGER PRIMARY KEY table: max(id) + 1
NextId(rows) == IF rows = {} THEN 1 ELSE MaxOf({r.id : r \in rows}) + 1

\* session.query(Manga).get(manga_id) is not None
HasManga(id) == \E m \in mangas : m.id = id

GetManga(id) == CHOOSE m \in mangas : m.id = id

HasChapter(id) == \E ch \in chapters : ch.id = id

GetChapter(id) == CHOOSE ch \in chapters : ch.id = id

\* manga.chapters
ChaptersOf(id) == {ch \in chapters : ch.manga_id = id}

\* chapter.pages, order_by page_number: the file ids as a sequence
PageRows(ps, cid) == {p \in ps : p.chapter_id = cid}

PagesOf(ps, cid) ==
    LET rows == PageRows(ps, cid)
        nums == {p.page_number : p \in rows}
    IN IF nums = 1..Cardinality(rows)
       THEN [i \in 1..Cardinality(rows) |-> (CHOOSE p \in rows : p.page_number = i).file_id]
       ELSE <<>>

\* Page(chapter_id=..., page_number=i + 1, file_id=file_id) for i, file_id in enumerate(ids)
NewPagesFromZero(cid, ids) ==
    {[chapter_id |-> cid, page_number |-> i - 1, file_id |-> ids[i]] : i \in 1..Len(ids)}

NewPages(cid, ids) ==
    {[chapter_id |-> cid, page_number |-> i, file_id |-> ids[i]] : i \in 1..Len(ids)}

----------------------------------------------------------------------------
(* context.user_data: a dict, here a function on the keys it holds.        *)

Empty == [k \in {} |-> 0]

Has(ud, k) == k \in DOMAIN ud

Put(ud, k, v) == [x \in DOMAIN ud \cup {k} |-> IF x = k THEN v ELSE ud[x]]

----------------------------------------------------------------------------
(* What a handler leaves behind: the state it returns, user_data, the      *)
(* messages it sent, and whether it ended with an uncaught exception (the  *)
(* ConversationHandler then keeps the conversation state).                 *)

Res(ret, ud, msgs, exc) == [ret |-> ret, ud |-> ud, out |-> msgs, raised |-> exc]

\* history of what the user typed when asked for a title and for a description
Supplied(state, inp, old) ==
    IF state = ADD_MANGA_TITLE /\ inp.kind = "text" THEN Put(old, "title", inp.data)
    ELSE IF state = ADD_MANGA_DESC /\ inp.kind = "text" THEN Put(old, "description", inp.data)
    ELSE old

\* history of one conversation, kept under the name of its chat: the comic
\* whose action menu the user opened, the chapter number typed, and the photos
\* sent since; it is forgotten when the conversation ends
Without(old, c) == [x \in DOMAIN old \ {c} |-> old[x]]

Entered(c, state, inp, res, old) ==
    LET mine == IF Has(old, c) THEN old[c] ELSE Empty
    IN IF ~res.raised /\ res.ret = END THEN Without(old, c)
       ELSE IF inp.kind = "manga_" /\ ~res.raised /\ res.ret = MANAGE_ACTION_MENU
       THEN Put(old, c, Put(mine, "manga_id", DecVal(inp.data)))
       ELSE IF state = ADD_CHAPTER_NUMBER /\ inp.kind = "text"
       THEN Put(old, c, Put(Put(mine, "chapter_number", inp.data), "pages", <<>>))
       ELSE IF state = ADD_CHAPTER_PAGES /\ inp.kind = "photo"
       THEN Put(old, c, Put(mine, "pages", Append(mine["pages"], inp.data)))
       ELSE old

Ready(c, u, inp, h) == ~imp.active /\ Handler(conv[<<c, u>>], inp) = h

Finish(c, u, inp, res) ==
    /\ conv' = IF res.raised THEN conv ELSE [conv EXCEPT ![<<c, u>>] = res.ret]
    /\ user_data' = [user_data EXCEPT ![u] = res.ud]
    /\ upd' = [chat |-> c, user |-> u, kind |-> inp.kind, data |-> inp.data]
    /\ out' = res.out
    /\ raised' = res.raised
    /\ supplied' = [supplied EXCEPT
                       ![u] = Entered(c, conv[<<c, u>>], inp, res,
                                      Supplied(conv[<<c, u>>], inp, @))]
    /\ UNCHANGED <<txn, web>>

\* start (lines 145-161)
start_open(u, ud) == Res(START_ROUTES, ud, <<Msg("menu", <<>>)>>, FALSE)

start(u, ud) ==
    IF u # ADMIN_USER_ID
    THEN Res(END, ud, <<Msg("unauthorized", <<>>)>>, FALSE)
    ELSE Res(START_ROUTES, ud, <<Msg("menu", <<>>)>>, FALSE)

\* to_main_menu (lines 132-142)
to_main_menu(ud) == Res(START_ROUTES, ud, <<Msg("menu", <<>>)>>, FALSE)

\* a manage_manga_start that shows the list even when it is empty
manage_manga_start_always(ms, ud) ==
    Res(MANAGE_SELECT_MANGA, ud, <<Msg("select_comic", <<>>)>>, FALSE)

\* manage_manga_start (lines 201-212), on the table ms
manage_manga_start(ms, ud) ==
    IF ms = {}
    THEN Res(START_ROUTES, ud, <<Msg("no_comics", <<>>)>> \o to_main_menu(ud).out, FALSE)
    ELSE Res(MANAGE_SELECT_MANGA, ud, <<Msg("select_comic", <<>>)>>, FALSE)

\* manage_action_menu (lines 214-230), on the table ms, for callback argument arg
manage_action_menu(ms, ud, arg) ==
    IF ~IsInt(arg) THEN Res(END, ud, <<>>, TRUE)                        \* int(): ValueError
    ELSE LET ud2 == Put(ud, "manga_id", DecVal(arg))
         IN IF ~\E m \in ms : m.id = DecVal(arg)
            THEN Res(END, ud2, <<>>, TRUE)                               \* manga is None
            ELSE Res(MANAGE_ACTION_MENU, ud2, <<Msg("managing", arg)>>, FALSE)

\* end_conversation (lines 434-437)
end_conversation_keep(ud) == Res(END, ud, <<Msg("cancelled", <<>>)>>, FALSE)

end_conversation(ud) == Res(END, Empty, <<Msg("cancelled", <<>>)>>, FALSE)

\* no transaction open in the importing session
NoTxn == [open |-> FALSE, chapter |-> <<>>, refs |-> <<>>]

\* the web application serves no request
NoRequest == [route |-> "none", pc |-> "done", id |-> 0, status |-> 200,
              mangas |-> {}, chapters |-> {}]

Idle == [active |-> FALSE, chat |-> "private", user |-> ADMIN_USER_ID,
         dirs |-> <<>>, k |-> 0, count |-> 0]

----------------------------------------------------------------------------
(* The handlers, one action each.                                          *)

Start(c, u) ==
    LET inp == In("start", <<>>)
    IN /\ Ready(c, u, inp, "start")
       /\ Finish(c, u, inp, start(u, user_data[u]))
       /\ UNCHANGED <<store, imp>>

AddMangaStart(c, u) ==
    LET inp == In("add_manga", <<>>)
    IN /\ Ready(c, u, inp, "add_manga_start")
       /\ Finish(c, u, inp, Res(ADD_MANGA_TITLE, user_data[u], <<Msg("ask_title", <<>>)>>, FALSE))
       /\ UNCHANGED <<store, imp>>

AddMangaTitle(c, u, E) ==
    \E t \in E.texts :
        LET inp == In("text", t)
        IN /\ Ready(c, u, inp, "add_manga_title")
           /\ Finish(c, u, inp, Res(ADD_MANGA_DESC, Put(user_data[u], "title", t),
                                    <<Msg("ask_description", <<>>)>>, FALSE))
           /\ UNCHANGED <<store, imp>>

AddMangaDesc(c, u, E) ==
    \E t \in E.texts :
        LET inp == In("text", t)
        IN /\ Ready(c, u, inp, "add_manga_desc")
           /\ Finish(c, u, inp, Res(ADD_MANGA_COVER, Put(user_data[u], "description", t),
                                    <<Msg("ask_cover", <<>>)>>, FALSE))
           /\ UNCHANGED <<store, imp>>

\* Manga(title=..., description=..., cover_file_id=photo.file_id) (lines 182-186)
new_manga_swapped(ud, photo) ==
    [id |-> NextId(mangas), title |-> ud["description"], description |-> ud["title"],
     cover_file_id |-> photo]

new_manga(ud, photo) ==
    [id |-> NextId(mangas), title |-> ud["title"], description |-> ud["description"],
     cover_file_id |-> photo]

\* whether lines 182-188 raise: a KeyError, the UNIQUE constraint on manga.title,
\* or any other failure of the database (dbfail)
add_manga_fails_no_unique(ud, dbfail) ==
    IF dbfail \/ ~Has(ud, "title") \/ ~Has(ud, "description") THEN TRUE ELSE FALSE

add_manga_fails(ud, dbfail) ==
    IF dbfail \/ ~Has(ud, "title") \/ ~Has(ud, "description") THEN TRUE
    ELSE \E m \in mangas : m.title = ud["title"]

\* the table manga after lines 187-192
add_manga_commit_always(ud, photo, dbfail) ==
    IF Has(ud, "title") /\ Has(ud, "description") THEN mangas \cup {new_manga(ud, photo)} ELSE mangas

add_manga_commit(ud, photo, dbfail) ==
    IF add_manga_fails(ud, dbfail) THEN mangas ELSE mangas \cup {new_manga(ud, photo)}

\* the finally clause (lines 193-195)
add_manga_finally_keep(ud) == ud

add_manga_finally(ud) == Empty

\* add_manga_cover (lines 178-198)
AddMangaCover(c, u, E) ==
    \E photo \in E.photos, dbfail \in E.dbfails :
        LET inp == In("photo", photo)
            ud == user_data[u]
            fails == add_manga_fails(ud, dbfail)
        IN /\ Ready(c, u, inp, "add_manga_cover")
           /\ IF fails THEN TRUE ELSE NextId(mangas) <= E.maxManga
           /\ mangas' = add_manga_commit(ud, photo, dbfail)
           /\ Finish(c, u, inp,
                     Res(END, add_manga_finally(ud),
                         <<Msg(IF fails THEN "error" ELSE "created", <<>>)>>
                             \o start(u, ud).out, FALSE))
           /\ UNCHANGED <<chapters, pages, imp>>

ManageMangaStart(c, u) ==
    \E k \in {"manage_manga", "back_to_manage"} :
        LET inp == In(k, <<>>)
        IN /\ Ready(c, u, inp, "manage_manga_start")
           /\ Finish(c, u, inp, manage_manga_start(mangas, user_data[u]))
           /\ UNCHANGED <<store, imp>>

ToMainMenu(c, u) ==
    LET inp == In("main_menu", <<>>)
    IN /\ Ready(c, u, inp, "to_main_menu")
       /\ Finish(c, u, inp, to_main_menu(user_data[u]))
       /\ UNCHANGED <<store, imp>>

ManageActionMenu(c, u, E) ==
    \E arg \in IdArgs(E.maxManga) :
        LET inp == In("manga_", arg)
        IN /\ Ready(c, u, inp, "manage_action_menu")
           /\ Finish(c, u, inp, manage_action_menu(mangas, user_data[u], arg))
           /\ UNCHANGED <<store, imp>>

\* add_chapter_method (lines 233-240): user_data['manga_id'] may raise KeyError
AddChapterMethod(c, u) ==
    LET inp == In("add_chapter", <<>>)
        ud == user_data[u]
    IN /\ Ready(c, u, inp, "add_chapter_method")
       /\ Finish(c, u, inp,
                 IF Has(ud, "manga_id")
                 THEN Res(ADD_CHAPTER_METHOD, ud, <<Msg("ask_method", <<>>)>>, FALSE)
                 ELSE Res(END, ud, <<>>, TRUE))
       /\ UNCHANGED <<store, imp>>

UpdateInfoStart(c, u) ==
    LET inp == In("update_info", <<>>)
    IN /\ Ready(c, u, inp, "update_info_start")
       /\ Finish(c, u, inp, Res(MANAGE_ACTION_MENU, user_data[u], <<Msg("wip", <<>>)>>, FALSE))
       /\ UNCHANGED <<store, imp>>

AddChapterManualStart(c, u) ==
    LET inp == In("manual_upload", <<>>)
    IN /\ Ready(c, u, inp, "add_chapter_manual_start")
       /\ Finish(c, u, inp, Res(ADD_CHAPTER_NUMBER, user_data[u], <<Msg("ask_number", <<>>)>>, FALSE))
       /\ UNCHANGED <<store, imp>>

AddChapterPagesStart(c, u, E) ==
    \E t \in E.texts :
        LET inp == In("text", t)
        IN /\ Ready(c, u, inp, "add_chapter_pages_start")
           /\ Finish(c, u, inp,
                     Res(ADD_CHAPTER_PAGES,
                         Put(Put(user_data[u], "chapter_number", t), "pages", <<>>),
                         <<Msg("ask_pages", <<>>)>>, FALSE))
           /\ UNCHANGED <<store, imp>>

\* add_chapter_page_collect (lines 253-256)
AddChapterPageCollect(c, u, E) ==
    \E photo \in E.photos :
        LET inp == In("photo", photo)
            ud == user_data[u]
            old == IF Has(ud, "pages") THEN ud["pages"] ELSE <<>>
            sent == IF Has(supplied[u], c) /\ Has(supplied[u][c], "pages")
                    THEN supplied[u][c]["pages"] ELSE <<>>
        IN /\ Ready(c, u, inp, "add_chapter_page_collect")
           /\ Len(old) < E.maxPages
           /\ Len(sent) < E.maxPages       \* the history is bounded as well
           /\ Finish(c, u, inp,
                     Res(ADD_CHAPTER_PAGES, Put(ud, "pages", Append(old, photo)),
                         <<Msg("page_saved", DecStr(Len(old) + 1))>>, FALSE))
           /\ UNCHANGED <<store, imp>>

\* add_chapter_manual_save (lines 258-276)
AddChapterManualSave(c, u, E) ==
    \E dbfail \in E.dbfails :
        LET inp == In("done", <<>>)
            ud == user_data[u]
            fails == dbfail \/ ~Has(ud, "manga_id") \/ ~Has(ud, "chapter_number")
                        \/ ~Has(ud, "pages")
            cid == NextId(chapters)
        IN /\ Ready(c, u, inp, "add_chapter_manual_save")
           /\ IF fails THEN TRUE ELSE cid <= E.maxChapter
           /\ chapters' = IF fails THEN chapters
                          ELSE chapters \cup {[id |-> cid, manga_id |-> ud["manga_id"],
                                               chapter_number |-> ud["chapter_number"]]}
           /\ pages' = IF fails THEN pages ELSE pages \cup NewPages(cid, ud["pages"])
           /\ Finish(c, u, inp,
                     Res(END, Empty,
                         <<Msg(IF fails THEN "error" ELSE "chapter_saved", <<>>)>>
                             \o start(u, ud).out, FALSE))
           /\ UNCHANGED <<mangas, imp>>

AddChapterZipStart(c, u) ==
    LET inp == In("zip_upload", <<>>)
    IN /\ Ready(c, u, inp, "add_chapter_zip_start")
       /\ Finish(c, u, inp, Res(ADD_CHAPTER_ZIP, user_data[u], <<Msg("ask_zip", <<>>)>>, FALSE))
       /\ UNCHANGED <<store, imp>>

----------------------------------------------------------------------------
(* Deleting chapters and comics.                                           *)

\* session.delete(chapter): the relationship cascades to its pages
WithoutChapterPages(cid) == {p \in pages : p.chapter_id # cid}

\* session.delete(manga): the relationships cascade to its chapters and their pages
ChaptersAfterDelete(mid) == {ch \in chapters : ch.manga_id # mid}

PagesAfterDelete(mid) == {p \in pages : \A ch \in ChaptersOf(mid) : p.chapter_id # ch.id}

\* delete_chapter_select (lines 351-370)
DeleteChapterSelect(c, u) ==
    LET inp == In("delete_chapter", <<>>)
        ud == user_data[u]
    IN /\ Ready(c, u, inp, "delete_chapter_select")
       /\ Finish(c, u, inp,
                 IF ~Has(ud, "manga_id") THEN Res(END, ud, <<>>, TRUE)          \* KeyError
                 ELSE IF ~HasManga(ud["manga_id"]) THEN Res(END, ud, <<>>, TRUE) \* manga is None
                 ELSE IF ChaptersOf(ud["manga_id"]) = {}
                      THEN \* manage_action_menu with query.data = "delete_chapter"
                           LET r == manage_action_menu(mangas, ud, <<"c", "h", "a", "p", "t", "e", "r">>)
                           IN Res(r.ret, r.ud, <<Msg("no_chapters", <<>>)>> \o r.out, r.raised)
                      ELSE Res(DELETE_CHAPTER_SELECT, ud, <<Msg("select_chapter", <<>>)>>, FALSE))
       /\ UNCHANGED <<store, imp>>

\* the table chapter after lines 376-380 for chapter id cid
delete_chapter_none(cid, dbfail) == chapters

delete_chapter_rows(cid, dbfail) ==
    IF dbfail THEN chapters ELSE {ch \in chapters : ch.id # cid}

\* delete_chapter_confirm (lines 372-392).  Line 391 assigns to query.data:
\* python-telegram-bot makes its objects immutable from version 20.0 on and
\* the assignment then raises AttributeError, while the pre-releases that
\* already have Application accept it; the source pins no version, so both
\* outcomes are taken (frozen).
DeleteChapterConfirm(c, u, E) ==
    \E arg \in IdArgs(E.maxChapter), dbfail \in E.dbfails, frozen \in BOOLEAN :
        LET inp == In("delchap_", arg)
            ud == user_data[u]
            cid == DecVal(arg)
            found == HasChapter(cid)
            first == IF ~found THEN "chapter_not_found"
                     ELSE IF dbfail THEN "error" ELSE "chapter_deleted"
            back == manage_action_menu(mangas, ud, DecStr(ud["manga_id"]))
        IN /\ Ready(c, u, inp, "delete_chapter_confirm")
           /\ IF ~IsInt(arg)
              THEN /\ Finish(c, u, inp, Res(END, ud, <<>>, TRUE))
                   /\ UNCHANGED store
              ELSE /\ found \/ ~dbfail
                   /\ chapters' = delete_chapter_rows(cid, dbfail)
                   /\ pages' = IF found /\ ~dbfail THEN WithoutChapterPages(cid) ELSE pages
                   /\ mangas' = mangas
                   /\ Finish(c, u, inp,
                             IF ~Has(ud, "manga_id") \/ frozen
                             THEN Res(END, ud, <<Msg(first, arg)>>, TRUE)
                             ELSE Res(back.ret, back.ud, <<Msg(first, arg)>> \o back.out,
                                      back.raised))
           /\ imp' = imp

\* delete_manga_confirm (lines 395-406)
DeleteMangaConfirm(c, u) ==
    LET inp == In("delete_manga", <<>>)
        ud == user_data[u]
    IN /\ Ready(c, u, inp, "delete_manga_confirm")
       /\ Finish(c, u, inp,
                 IF Has(ud, "manga_id")
                 THEN Res(DELETE_MANGA_CONFIRM, ud, <<Msg("confirm_delete", <<>>)>>, FALSE)
                 ELSE Res(END, ud, <<>>, TRUE))
       /\ UNCHANGED <<store, imp>>

\* the table manga after lines 412-416 for manga id mid
delete_manga_none(mid, dbfail) == mangas

delete_manga_rows(mid, dbfail) ==
    IF dbfail THEN mangas ELSE {m \in mangas : m.id # mid}

\* delete_manga_execute (lines 408-426)
DeleteMangaExecute(c, u, E) ==
    \E arg \in IdArgs(E.maxManga), dbfail \in E.dbfails :
        LET inp == In("delmanga_yes_", arg)
            ud == user_data[u]
            mid == DecVal(arg)
            found == HasManga(mid)
            first == IF ~found THEN "comic_not_found"
                     ELSE IF dbfail THEN "error" ELSE "comic_deleted"
            after == delete_manga_rows(mid, dbfail)
            list == manage_manga_start(after, ud)
        IN /\ Ready(c, u, inp, "delete_manga_execute")
           /\ IF ~IsInt(arg)
              THEN /\ Finish(c, u, inp, Res(END, ud, <<>>, TRUE))
                   /\ UNCHANGED store
              ELSE /\ found \/ ~dbfail
                   /\ mangas' = after
                   /\ chapters' = IF found /\ ~dbfail THEN ChaptersAfterDelete(mid) ELSE chapters
                   /\ pages' = IF found /\ ~dbfail THEN PagesAfterDelete(mid) ELSE pages
                   /\ Finish(c, u, inp,
                             Res(list.ret, list.ud, <<Msg(first, arg)>> \o list.out, FALSE))
           /\ imp' = imp

EndConversation(c, u) ==
    LET inp == In("cancel", <<>>)
    IN /\ Ready(c, u, inp, "end_conversation")
       /\ Finish(c, u, inp, end_conversation(user_data[u]))
       /\ UNCHANGED <<store, imp>>

----------------------------------------------------------------------------
(* add_chapter_zip_process (lines 287-348).  An uploaded archive is        *)
(* [label, ok, dirs]: the document's name, whether it decompresses, and    *)
(* the directories rglob('*') enumerates, in that order.  The handler runs *)
(* as one step up to line 307, one step per folder of sorted_chapters and  *)
(* one step from line 339 on; the application handles no other update      *)
(* until it has returned.                                                  *)

Dir(name, files) == [name |-> name, files |-> files]

Zip(label, ok, dirs) == [label |-> label, ok |-> ok, dirs |-> dirs]

\* str(extract_number(chap_dir.name)) (line 313)
chapter_num(d) == FloatStr(extract_number(d.name))

\* the test written as float(chapter_num) < -1
NoTokenBelow(d) == FloatLess(FloatOf(chapter_num(d)), [n |-> -1, e |-> 0])

\* float(chapter_num) < 0 (line 314)
NoToken(d) == FloatLess(FloatOf(chapter_num(d)), [n |-> 0, e |-> 0])

\* page_file_ids (lines 328-331)
page_file_ids(d) == [i \in 1..Len(image_files(d)) |-> Relay(image_files(d)[i])]

ZipProcessStart(c, u, E) ==
    \E a \in E.archives :
        LET inp == In("zip", a.label)
            ud == user_data[u]
            sorted == sorted_chapters(a.dirs)
        IN /\ Ready(c, u, inp, "add_chapter_zip_process")
           /\ IF ~a.ok
              THEN \* zipfile.BadZipFile, outside any try
                   /\ Finish(c, u, inp, Res(END, ud, <<>>, TRUE))
                   /\ imp' = imp
              ELSE IF chapter_dirs(a.dirs) = <<>>
              THEN /\ Finish(c, u, inp,
                             Res(END, ud, <<Msg("no_folders", <<>>)>> \o start(u, ud).out, FALSE))
                   /\ imp' = imp
              ELSE /\ NextId(chapters) + Len(sorted) - 1 <= E.maxChapter
                   /\ imp' = [active |-> TRUE, chat |-> c, user |-> u, dirs |-> sorted,
                              k |-> 1, count |-> 0]
                   /\ upd' = [chat |-> c, user |-> u, kind |-> inp.kind, data |-> inp.data]
                   /\ out' = <<Msg("found", DecStr(Len(sorted)))>>
                   /\ raised' = FALSE
                   /\ UNCHANGED <<conv, user_data, supplied>>
           /\ UNCHANGED <<store, txn, web>>

\* the return without the finally clause's user_data.clear()
ZipReturnKeep(msgs) ==
    /\ conv' = [conv EXCEPT ![<<imp.chat, imp.user>>] = END]
    /\ user_data' = user_data
    /\ out' = out \o msgs \o start(imp.user, user_data[imp.user]).out
    /\ imp' = Idle
    /\ UNCHANGED <<upd, raised, supplied>>

\* lines 340-348: the except and finally clauses, start() and the return
ZipReturn(msgs) ==
    /\ conv' = [conv EXCEPT ![<<imp.chat, imp.user>>] = END]
    /\ user_data' = [user_data EXCEPT ![imp.user] = Empty]
    /\ out' = out \o msgs \o start(imp.user, user_data[imp.user]).out
    /\ imp' = Idle
    /\ UNCHANGED <<upd, raised, supplied>>

\* one iteration of the loop at line 312
ZipFolder(E) ==
    /\ imp.active
    /\ imp.k <= Len(imp.dirs)
    /\ LET d == imp.dirs[imp.k]
           ud == user_data[imp.user]
           cid == NextId(chapters)
           uploading == Msg("uploading", chapter_num(d))
       IN IF NoToken(d)
          THEN /\ imp' = [imp EXCEPT !.k = @ + 1]
               /\ out' = Append(out, Msg("skipping", d.name))
               /\ UNCHANGED <<store, conv, user_data, upd, raised, supplied>>
          ELSE IF image_files(d) = <<>>
          THEN /\ imp' = [imp EXCEPT !.k = @ + 1]
               /\ UNCHANGED <<store, conv, user_data, upd, out, raised, supplied>>
          ELSE \E relayfail \in BOOLEAN, dbfail \in E.dbfails :
                 IF relayfail \/ dbfail \/ ~Has(ud, "manga_id")
                 THEN /\ ZipReturn(<<uploading, Msg("error", <<>>)>>)
                      /\ UNCHANGED store
                 ELSE /\ chapters' = chapters \cup
                            {[id |-> cid, manga_id |-> ud["manga_id"],
                              chapter_number |-> chapter_num(d)]}
                      /\ pages' = pages \cup NewPages(cid, page_file_ids(d))
                      /\ imp' = [imp EXCEPT !.k = @ + 1, !.count = @ + 1]
                      /\ out' = Append(out, uploading)
                      /\ UNCHANGED <<mangas, conv, user_data, upd, raised, supplied>>
    /\ UNCHANGED <<txn, web>>

\* line 339 and the return
ZipFinish ==
    /\ imp.active
    /\ imp.k > Len(imp.dirs)
    /\ ZipReturn(<<Msg("finished", DecStr(imp.count))>>)
    /\ UNCHANGED <<store, txn, web>>

----------------------------------------------------------------------------
(* Updates no handler of the conversation accepts.                         *)

Inputs(E) ==
    {In(k, <<>>) : k \in {"start", "done", "cancel", "doc"} \cup StaticCallbacks}
        \cup {In("text", t) : t \in E.texts}
        \cup {In("photo", p) : p \in E.photos}
        \cup {In("zip", a.label) : a \in E.archives}
        \cup {In("manga_", a) : a \in IdArgs(E.maxManga)}
        \cup {In("delmanga_yes_", a) : a \in IdArgs(E.maxManga)}
        \cup {In("delchap_", a) : a \in IdArgs(E.maxChapter)}

Ignore(c, u, E) ==
    \E inp \in Inputs(E) :
        /\ ~imp.active
        /\ Handler(conv[<<c, u>>], inp) = "none"
        /\ upd' = [chat |-> c, user |-> u, kind |-> inp.kind, data |-> inp.data]
        /\ out' = <<>>
        /\ raised' = FALSE
        /\ UNCHANGED <<store, conv, user_data, imp, supplied, txn, web>>

----------------------------------------------------------------------------------------------------------------------------------------------------
(* The bot: every handler, one chat with the admin and another user in it. *)

txt == <<"n", ".", "t", "x", "t">>
a_jpg == <<"a", ".", "j", "p", "g">>
b_png == <<"b", ".", "p", "n", "g">>
c_JPG == <<"c", ".", "J", "P", "G">>
d_jpeg == <<"d", ".", "j", "p", "e", "g">>

Ch(num) == <<"C", "h", "a", "p", "t", "e", "r", " ">> \o num

\* the archives the admin uploads: one that does not decompress, one without
\* images, one with a chapter folder
Archives ==
    { Zip(<<"b", "a", "d">>, FALSE, <<>>),
      Zip(<<"t", "x", "t">>, TRUE, <<Dir(<<"d", "o", "c", "s">>, <<txt>>)>>),
      Zip(<<"z", "i", "p">>, TRUE, <<Dir(Ch(<<"2">>), <<b_png, a_jpg>>)>>) }

BotEnv == Env({<<"2">>}, {<<"P", "1">>}, Archives, BOOLEAN, MaxMangaId, MaxChapterId, MaxPages)

NoUpdate == [chat |-> "group", user |-> ADMIN_USER_ID, kind |-> "none", data |-> <<>>]

Init ==
    /\ mangas = {}
    /\ chapters = {}
    /\ pages = {}
    /\ conv = [key \in Chats \X Users |-> END]
    /\ user_data = [u \in Users |-> Empty]
    /\ imp = Idle
    /\ upd = NoUpdate
    /\ out = <<>>
    /\ raised = FALSE
    /\ supplied = [u \in Users |-> Empty]
    /\ txn = NoTxn
    /\ web = NoRequest

Next ==
    \E c \in {"group"}, u \in Users :
        \/ Start(c, u)
        \/ AddMangaStart(c, u)
        \/ AddMangaTitle(c, u, BotEnv)
        \/ AddMangaDesc(c, u, BotEnv)
        \/ AddMangaCover(c, u, BotEnv)
        \/ ManageMangaStart(c, u)
        \/ ToMainMenu(c, u)
        \/ ManageActionMenu(c, u, BotEnv)
        \/ AddChapterMethod(c, u)
        \/ UpdateInfoStart(c, u)
        \/ AddChapterManualStart(c, u)
        \/ AddChapterPagesStart(c, u, BotEnv)
        \/ AddChapterPageCollect(c, u, BotEnv)
        \/ AddChapterManualSave(c, u, BotEnv)
        \/ AddChapterZipStart(c, u)
        \/ ZipProcessStart(c, u, BotEnv)
        \/ ZipFolder(BotEnv)
        \/ ZipFinish
        \/ DeleteChapterSelect(c, u)
        \/ DeleteChapterConfirm(c, u, BotEnv)
        \/ DeleteMangaConfirm(c, u)
        \/ DeleteMangaExecute(c, u, BotEnv)
        \/ EndConversation(c, u)
        \/ Ignore(c, u, BotEnv)

Spec == Init /\ [][Next]_vars

----------------------------------------------------------------------------
(* Properties of the conversation, checked under Spec.                     *)

Admin == ADMIN_USER_ID

Stranger == ADMIN_USER_ID + 1

\* the conversation the update handled last belongs to
LastKey == <<upd.chat, upd.user>>

\* the callback tokens on the keyboard a state shows (lines 133-136, 209-210,
\* 222-228, 234-238, 367-368, 397-400)
Keyboard(state) ==
    CASE state = START_ROUTES -> {"add_manga", "manage_manga"}
      [] state = MANAGE_SELECT_MANGA -> {"manga_", "main_menu"}
      [] state = MANAGE_ACTION_MENU ->
            {"add_chapter", "update_info", "delete_chapter", "delete_manga", "back_to_manage"}
      [] state = ADD_CHAPTER_METHOD -> {"zip_upload", "manual_upload", "manga_"}
      [] state = DELETE_CHAPTER_SELECT -> {"delchap_", "manga_"}
      [] state = DELETE_MANGA_CONFIRM -> {"delmanga_yes_", "manga_"}
      [] OTHER -> {}

\* the message a state prompts for
Prompted(state) ==
    CASE state \in {ADD_MANGA_TITLE, ADD_MANGA_DESC, ADD_CHAPTER_NUMBER} -> {"text"}
      [] state = ADD_MANGA_COVER -> {"photo"}
      [] state = ADD_CHAPTER_PAGES -> {"photo", "done"}
      [] state = ADD_CHAPTER_ZIP -> {"zip"}
      [] OTHER -> {}

\* an input kind the state does not expect; cancel is expected everywhere
Unexpected(state, kind) ==
    kind \notin Keyboard(state) \cup Prompted(state) \cup {"cancel", "none"}

\* C1: whatever a user other than the administrator sends, that user's
\* conversation stays inactive (END) in every chat, and the tables manga,
\* chapter and page are the same after the update as before it.
C1_StrangerInert ==
    [][ /\ \A c \in Chats, u \in Users \ {Admin} : conv'[<<c, u>>] = END
        /\ upd'.user # Admin => store' = store ]_vars

\* C1 witness: the other user has pressed "YES, DELETE IT" while the admin's
\* delete confirmation is open, and the comic is still there.
C1_Witness ==
    /\ upd.user = Stranger
    /\ upd.kind = "delmanga_yes_"
    /\ conv[<<"group", Admin>>] = DELETE_MANGA_CONFIRM
    /\ mangas # {}

\* C2 (as claimed): every update of a user other than the administrator is
\* answered with the unauthorized message.
C2_DenialAlways == upd.user # Admin => Said("unauthorized")

\* C7: in every state of an active conversation of the admin, /cancel is
\* answered, leaves the tables unchanged, empties user_data and ends the
\* conversation.
C7_CancelAnywhere ==
    [][ (/\ ~imp.active
         /\ upd'.kind = "cancel"
         /\ upd'.user = Admin
         /\ conv[<<upd'.chat, Admin>>] \in ActiveStates)
        => (/\ store' = store
            /\ user_data'[Admin] = Empty
            /\ conv'[<<upd'.chat, Admin>>] = END
            /\ out' = <<Msg("cancelled", <<>>)>>
            /\ ~raised') ]_vars

\* C7 witness: a cancel has been answered and emptied user_data while a comic
\* with a chapter is stored.
C7_Witness ==
    /\ upd.kind = "cancel"
    /\ Said("cancelled")
    /\ conv[LastKey] = END
    /\ user_data[Admin] = Empty
    /\ mangas # {}
    /\ chapters # {}

\* C8: in every state of an active conversation, an update of a kind the
\* state does not expect leaves the conversation states, user_data and the
\* tables unchanged.
C8_UnexpectedIgnored ==
    [][ (/\ ~imp.active
         /\ conv[<<upd'.chat, upd'.user>>] \in ActiveStates
         /\ Unexpected(conv[<<upd'.chat, upd'.user>>], upd'.kind))
        => (conv' = conv /\ user_data' = user_data /\ store' = store) ]_vars

\* C8 witness: a text has arrived while the cover photo is awaited; the
\* conversation still awaits the cover and holds the title and description.
C8_Witness ==
    /\ upd.kind = "text"
    /\ out = <<>>
    /\ conv[LastKey] = ADD_MANGA_COVER
    /\ Has(user_data[Admin], "title")
    /\ Has(user_data[Admin], "description")

----------------------------------------------------------------------------
(* The creation flow alone: the admin in two chats (the conversations are  *)
(* per chat, user_data is per user), two texts, two photos, and a database *)
(* that may fail.                                                          *)

CreateEnv == Env(Texts, Photos, {}, BOOLEAN, CreateMaxMangaId, 0, 0)

NextCreate ==
    \E c \in Chats, u \in {Admin} :
        \/ Start(c, u)
        \/ AddMangaStart(c, u)
        \/ AddMangaTitle(c, u, CreateEnv)
        \/ AddMangaDesc(c, u, CreateEnv)
        \/ AddMangaCover(c, u, CreateEnv)
        \/ EndConversation(c, u)

SpecCreate == Init /\ [][NextCreate]_vars

\* the update handled in this step is a photo for a conversation awaiting the cover
CoverStep ==
    /\ ~imp.active
    /\ upd'.kind = "photo"
    /\ conv[<<upd'.chat, upd'.user>>] = ADD_MANGA_COVER

\* C4: a cover photo always ends the creation flow: user_data is emptied and
\* the conversation ends; either the comic is committed and announced, or an
\* error is reported and the tables are as before.
C4_CommitOrReportedFailure ==
    [][ CoverStep =>
          /\ user_data'[upd'.user] = Empty
          /\ conv'[<<upd'.chat, upd'.user>>] = END
          /\ ~raised'
          /\ \/ Said("created")' /\ ~Said("error")' /\ mangas' # mangas
             \/ Said("error")' /\ ~Said("created")' /\ store' = store ]_vars

\* C4 witness: a creation has failed with the title and description given:
\* the error was reported, nothing stored, user_data emptied, conversation ended.
C4_Witness ==
    /\ upd.kind = "photo"
    /\ Said("error")
    /\ Has(supplied[Admin], "title")
    /\ Has(supplied[Admin], "description")
    /\ \A m \in mangas : m.title # supplied[Admin]["title"]
    /\ user_data[Admin] = Empty
    /\ conv[LastKey] = END

\* the title the cover step is about to commit is already the title of a comic
TitleTaken ==
    /\ Has(user_data[upd'.user], "title")
    /\ Has(user_data[upd'.user], "description")
    /\ \E m \in mangas : m.title = user_data[upd'.user]["title"]

\* C5 (as claimed): creating a comic under the title of a stored comic
\* replaces it without an error: afterwards exactly one comic has that title,
\* and it carries the new description and cover.
C5_SilentOverwrite ==
    [][ (CoverStep /\ TitleTaken) =>
          /\ ~Said("error")'
          /\ \E m \in mangas' :
                /\ m.title = user_data[upd'.user]["title"]
                /\ m.description = user_data[upd'.user]["description"]
                /\ m.cover_file_id = upd'.data
                /\ \A o \in mangas' : o.title = m.title => o = m ]_vars

\* C5 (amended): creating a comic under the title of a stored comic is
\* refused: an error is reported and the table manga is unchanged, so the
\* first comic keeps its description and cover.
C5_DuplicateTitleRefused ==
    [][ (CoverStep /\ TitleTaken) =>
          /\ Said("error")'
          /\ ~Said("created")'
          /\ store' = store ]_vars

\* C5 witness: a second creation under a stored title, with another
\* description, has been refused and the first description is still stored.
C5_Witness ==
    /\ upd.kind = "photo"
    /\ Said("error")
    /\ Has(supplied[Admin], "title")
    /\ Has(supplied[Admin], "description")
    /\ \E m \in mangas :
          /\ m.title = supplied[Admin]["title"]
          /\ m.description # supplied[Admin]["description"]
          /\ m.cover_file_id # upd.data

----------------------------------------------------------------------------
(* Creation, manual chapter upload and comic deletion, with the admin in   *)
(* two chats at once and a database that does not fail.                    *)

SharedEnv == Env({<<"2">>}, {<<"P", "1">>}, {}, {FALSE}, MaxMangaId, MaxChapterId, MaxPages)

NextShared ==
    \E c \in Chats, u \in {Admin} :
        \/ Start(c, u)
        \/ AddMangaStart(c, u)
        \/ AddMangaTitle(c, u, SharedEnv)
        \/ AddMangaDesc(c, u, SharedEnv)
        \/ AddMangaCover(c, u, SharedEnv)
        \/ ManageMangaStart(c, u)
        \/ ManageActionMenu(c, u, SharedEnv)
        \/ AddChapterMethod(c, u)
        \/ AddChapterManualStart(c, u)
        \/ AddChapterPagesStart(c, u, SharedEnv)
        \/ AddChapterPageCollect(c, u, SharedEnv)
        \/ AddChapterManualSave(c, u, SharedEnv)
        \/ DeleteMangaConfirm(c, u)
        \/ DeleteMangaExecute(c, u, SharedEnv)

SpecShared == Init /\ [][NextShared]_vars

\* C3: when a cover photo commits a comic, the table manga gains exactly one
\* row, carrying the title and description the admin typed and the photo's
\* file id, and no chapter belongs to that row.
C3_CreatedAsSupplied ==
    [][ (CoverStep /\ Said("created")') =>
          \E m \in mangas' :
             /\ m \notin mangas
             /\ mangas' = mangas \cup {m}
             /\ m.title = supplied[upd'.user]["title"]
             /\ m.description = supplied[upd'.user]["description"]
             /\ m.cover_file_id = upd'.data
             /\ {ch \in chapters' : ch.manga_id = m.id} = {} ]_vars

----------------------------------------------------------------------------
(* Deleting comics from a database that already holds some (manga.db       *)
(* outlives the process), the admin in two chats.                          *)

\* the comics stored when the bot starts: ids 1..StoredMangas, each with one
\* chapter of one page
StoredMangas == 2

StoredManga(i) ==
    [id |-> i, title |-> <<"T">> \o DecStr(i), description |-> <<"D">> \o DecStr(i),
     cover_file_id |-> <<"P">> \o DecStr(i)]

StoredChapter(i) == [id |-> i, manga_id |-> i, chapter_number |-> DecStr(i)]

StoredPage(i) == [chapter_id |-> i, page_number |-> 1, file_id |-> <<"F">> \o DecStr(i)]

DeleteEnv == Env({}, {}, {}, BOOLEAN, StoredMangas, StoredMangas, 0)

InitDelete ==
    /\ mangas = {StoredManga(i) : i \in 1..StoredMangas}
    /\ chapters = {StoredChapter(i) : i \in 1..StoredMangas}
    /\ pages = {StoredPage(i) : i \in 1..StoredMangas}
    /\ conv = [key \in Chats \X Users |-> END]
    /\ user_data = [u \in Users |-> Empty]
    /\ imp = Idle
    /\ upd = NoUpdate
    /\ out = <<>>
    /\ raised = FALSE
    /\ supplied = [u \in Users |-> Empty]
    /\ txn = NoTxn
    /\ web = NoRequest

NextDelete ==
    \E c \in Chats, u \in {Admin} :
        \/ Start(c, u)
        \/ ManageMangaStart(c, u)
        \/ ManageActionMenu(c, u, DeleteEnv)
        \/ DeleteMangaConfirm(c, u)
        \/ DeleteMangaExecute(c, u, DeleteEnv)
        \/ ToMainMenu(c, u)
        \/ EndConversation(c, u)

SpecDelete == InitDelete /\ [][NextDelete]_vars

\* the update handled in this step confirms the deletion of comic DecVal(upd'.data)
DeleteStep ==
    /\ ~imp.active
    /\ upd'.kind = "delmanga_yes_"
    /\ conv[<<upd'.chat, upd'.user>>] = DELETE_MANGA_CONFIRM
    /\ IsInt(upd'.data)

\* C6: a confirmed deletion of a stored comic that the database carries out
\* removes that comic, with its chapters and pages, and leaves every other
\* comic, chapter and page as it was; a confirmed deletion of a comic that is
\* not stored changes nothing and is answered "not found", without an error.
C6_DeleteComic ==
    [][ DeleteStep =>
          LET id == DecVal(upd'.data)
          IN IF HasManga(id)
             THEN \/ Said("error")' /\ store' = store
                  \/ /\ Said("comic_deleted")'
                     /\ ~Said("error")'
                     /\ mangas' = {m \in mangas : m.id # id}
                     /\ chapters' = {ch \in chapters : ch.manga_id # id}
                     /\ pages' = {p \in pages :
                                     \A ch \in chapters : ch.manga_id = id => p.chapter_id # ch.id}
             ELSE /\ store' = store
                  /\ Said("comic_not_found")'
                  /\ ~Said("error")'
                  /\ ~raised' ]_vars

\* C6 witness: one stored comic has been deleted with its chapter and page
\* while another is still stored with its own, and a later confirmation for
\* the deleted comic was answered "not found".
C6_Witness ==
    /\ upd.kind = "delmanga_yes_"
    /\ Said("comic_not_found")
    /\ upd.data = <<"1">>
    /\ mangas = {StoredManga(i) : i \in 2..StoredMangas}
    /\ chapters = {StoredChapter(i) : i \in 2..StoredMangas}
    /\ pages = {StoredPage(i) : i \in 2..StoredMangas}

----------------------------------------------------------------------------
(* One archive import into a stored comic: every enumeration order of up   *)
(* to MaxDirs folders and of the files in them.                            *)

FolderNames ==
    { Ch(<<"1", "0">>), Ch(<<"2">>), Ch(<<"1", ".", "5">>),
      <<"v", "3", " ", "c", "1">>, <<"e", "x", "t", "r", "a", "s">> }

FolderFiles == {a_jpg, b_png, c_JPG, d_jpeg}

Injective(s) == \A i, j \in DOMAIN s : s[i] = s[j] => i = j

\* the orders in which iterdir and glob may enumerate the files of a folder
FileOrders == {s \in [1..Cardinality(FolderFiles) -> FolderFiles] : Injective(s)}

\* the orders in which rglob may enumerate up to MaxDirs folders
FolderOrders == {s \in UNION {[1..n -> FolderNames] : n \in 1..MaxDirs} : Injective(s)}

RECURSIVE Concat(_)
Concat(ss) == IF ss = <<>> THEN <<>> ELSE ss[1] \o Concat(Tail(ss))

\* an archive named after its folders, in the order they are enumerated
ImportArchives ==
    { Zip(Concat(names), TRUE, [i \in DOMAIN names |-> Dir(names[i], files)]) :
          names \in FolderOrders, files \in FileOrders }

ImportEnv == Env({}, {}, ImportArchives, BOOLEAN, 1, ImportMaxChapterId, 0)

\* the admin has chosen comic 1 and "ZIP upload" in the private chat
InitImport ==
    /\ mangas = {StoredManga(1)}
    /\ chapters = {}
    /\ pages = {}
    /\ conv = [key \in Chats \X Users |->
                 IF key = <<"private", Admin>> THEN ADD_CHAPTER_ZIP ELSE END]
    /\ user_data = [u \in Users |-> IF u = Admin THEN Put(Empty, "manga_id", 1) ELSE Empty]
    /\ imp = Idle
    /\ upd = NoUpdate
    /\ out = <<>>
    /\ raised = FALSE
    /\ supplied = [u \in Users |-> Empty]
    /\ txn = NoTxn
    /\ web = NoRequest

NextImport ==
    \/ \E c \in Chats, u \in {Admin} : ZipProcessStart(c, u, ImportEnv)
    \/ ZipFolder(ImportEnv)
    \/ ZipFinish

SpecImport == InitImport /\ [][NextImport]_vars

\* C9: the chapters an import has created so far were created in ascending
\* order of their numbers: a chapter with a smaller id (created earlier) never
\* has a greater number than one with a larger id.
C9_NumericOrder ==
    \A c1, c2 \in chapters :
        c1.id < c2.id => ~FloatLess(FloatOf(c2.chapter_number), FloatOf(c1.chapter_number))

\* C9 witness: the folders enumerated as Chapter 10, Chapter 2, Chapter 1.5
\* have become chapters 1.5, 2.0 and 10.0 of comic 1, created in that order.
C9_Witness ==
    /\ upd.data = Ch(<<"1", "0">>) \o Ch(<<"2">>) \o Ch(<<"1", ".", "5">>)
    /\ chapters = { [id |-> 1, manga_id |-> 1, chapter_number |-> <<"1", ".", "5">>],
                    [id |-> 2, manga_id |-> 1, chapter_number |-> <<"2", ".", "0">>],
                    [id |-> 3, manga_id |-> 1, chapter_number |-> <<"1", "0", ".", "0">>] }

\* the file a stored page reference was relayed from
Relayed(ref) == Tail(ref)

\* C10: when the import commits the chapter of a folder, the chapter's pages,
\* by page number, are the references of the folder's .jpg and .png files,
\* each once, in ascending order of file name.
C10_PagesByFileName ==
    [][ (imp.active /\ chapters' # chapters) =>
          LET d == imp.dirs[imp.k]
              cid == (CHOOSE ch \in chapters' \ chapters : TRUE).id
              rows == {p \in pages' : p.chapter_id = cid}
              picked == {d.files[i] : i \in {j \in 1..Len(d.files) :
                             LowerStr(Suffix(d.files[j])) \in
                                 {<<".", "j", "p", "g">>, <<".", "p", "n", "g">>}}}
          IN /\ pages' \ pages = rows
             /\ {p.page_number : p \in rows} = 1..Cardinality(rows)
             /\ {Relayed(p.file_id) : p \in rows} = picked
             /\ Cardinality(rows) = Cardinality(picked)
             /\ \A p, q \in rows :
                    p.page_number < q.page_number =>
                        StrLess(Relayed(p.file_id), Relayed(q.file_id)) ]_vars

\* C10 witness: a folder enumerated as b.png, a.jpg, c.JPG, d.jpeg has become
\* chapter 1 with the pages a.jpg, b.png, c.JPG.
C10_Witness ==
    /\ imp.active
    /\ imp.k = 2
    /\ imp.dirs[1].files = <<b_png, a_jpg, c_JPG, d_jpeg>>
    /\ PagesOf(pages, 1) = <<Relay(a_jpg), Relay(b_png), Relay(c_JPG)>>

----------------------------------------------------------------------------
(* Properties of the archive import, checked under SpecImport.             *)

\* C11 (as claimed): an import commits once, after its last folder: a step
\* after which folders are still to be processed changes no table.
C11_SingleCommit ==
    [][ (imp.active /\ imp'.active /\ imp'.k <= Len(imp'.dirs)) => store' = store ]_vars

\* the .jpg and .png files among FolderFiles: the pages of a complete chapter
PickedFiles ==
    {f \in FolderFiles : LowerStr(Suffix(f)) \in {<<".", "j", "p", "g">>, <<".", "p", "n", "g">>}}

\* this step of the import reports a failure
ImportFails == imp.active /\ Len(out') > Len(out) /\ Said("error")'

\* C12: when relaying (or storing) fails at a folder, the import returns at
\* once: the failure is reported, the tables are as they were before that
\* folder, so the chapters committed earlier keep all their pages and the
\* failing folder leaves no chapter; user_data is emptied and the
\* conversation ends.
C12_FailureStopsImport ==
    [][ ImportFails =>
          /\ store' = store
          /\ \A ch \in chapters' :
                Len(PagesOf(pages', ch.id)) = Cardinality(PickedFiles)
          /\ ~imp'.active
          /\ ~Said("finished")'
          /\ conv'[<<imp.chat, imp.user>>] = END
          /\ user_data'[imp.user] = Empty ]_vars

\* C12 witness: of the folders Chapter 2 and Chapter 1.5, chapter 1.5 is
\* stored with its three pages, the import failed at Chapter 2 and has
\* returned.
C12_Witness ==
    /\ upd.data = Ch(<<"2">>) \o Ch(<<"1", ".", "5">>)
    /\ Said("error")
    /\ ~imp.active
    /\ chapters = {[id |-> 1, manga_id |-> 1, chapter_number |-> <<"1", ".", "5">>]}
    /\ PagesOf(pages, 1) = <<Relay(a_jpg), Relay(b_png), Relay(c_JPG)>>
    /\ conv[LastKey] = END
    /\ user_data[Admin] = Empty

\* C13 (as claimed): an archive that does not decompress is answered with an
\* error message, changes no table, and does not leave the conversation
\* waiting for an archive with user_data still filled.
C13_CorruptReported ==
    [][ (/\ ~imp.active
         /\ upd'.kind = "zip"
         /\ upd'.data = <<"b", "a", "d">>
         /\ conv[<<upd'.chat, upd'.user>>] = ADD_CHAPTER_ZIP)
        => (/\ Said("error")'
            /\ store' = store
            /\ ~(/\ conv'[<<upd'.chat, upd'.user>>] = ADD_CHAPTER_ZIP
                 /\ user_data'[upd'.user] # Empty)) ]_vars

----------------------------------------------------------------------------
(* The web application reading while an import writes.  The bot runs in a  *)
(* thread of its own (lines 527-530), so a request may be served between   *)
(* any two statements of add_chapter_zip_process; here the iteration of    *)
(* the loop at line 312 is taken statement by statement.                   *)

\* the folder the import is at
CurDir == imp.dirs[imp.k]

\* lines 313-320: a folder without a number or without .jpg/.png files is passed over
ZipSkip(E) ==
    /\ imp.active
    /\ imp.k <= Len(imp.dirs)
    /\ NoToken(CurDir) \/ image_files(CurDir) = <<>>
    /\ ZipFolder(E)

\* lines 322-326: the chapter row is added and flushed, not committed
ZipFlush(E) ==
    /\ imp.active
    /\ imp.k <= Len(imp.dirs)
    /\ ~txn.open
    /\ ~NoToken(CurDir)
    /\ image_files(CurDir) # <<>>
    /\ LET ud == user_data[imp.user]
           uploading == Msg("uploading", chapter_num(CurDir))
       IN IF ~Has(ud, "manga_id")
          THEN /\ ZipReturn(<<uploading, Msg("error", <<>>)>>)
               /\ UNCHANGED <<store, txn, web>>
          ELSE /\ txn' = [open |-> TRUE,
                          chapter |-> [id |-> NextId(chapters), manga_id |-> ud["manga_id"],
                                       chapter_number |-> chapter_num(CurDir)],
                          refs |-> <<>>]
               /\ out' = Append(out, uploading)
               /\ UNCHANGED <<store, conv, user_data, imp, upd, raised, supplied, web>>

\* lines 328-331: one send_photo; a failure reaches the except clause, which
\* rolls the flushed row back
ZipRelay ==
    /\ imp.active
    /\ txn.open
    /\ Len(txn.refs) < Len(image_files(CurDir))
    /\ \E relayfail \in BOOLEAN :
         IF relayfail
         THEN /\ ZipReturn(<<Msg("error", <<>>)>>)
              /\ txn' = NoTxn
              /\ UNCHANGED <<store, web>>
         ELSE /\ txn' = [txn EXCEPT
                           !.refs = Append(@, Relay(image_files(CurDir)[Len(@) + 1]))]
              /\ UNCHANGED <<store, conv, user_data, imp, upd, out, raised, supplied, web>>

\* lines 333-337: the page rows are added and the transaction committed
ZipCommit(E) ==
    /\ imp.active
    /\ txn.open
    /\ Len(txn.refs) = Len(image_files(CurDir))
    /\ \E dbfail \in E.dbfails :
         IF dbfail
         THEN /\ ZipReturn(<<Msg("error", <<>>)>>)
              /\ txn' = NoTxn
              /\ UNCHANGED <<store, web>>
         ELSE /\ chapters' = chapters \cup {txn.chapter}
              /\ pages' = pages \cup NewPages(txn.chapter.id, txn.refs)
              /\ txn' = NoTxn
              /\ imp' = [imp EXCEPT !.k = @ + 1, !.count = @ + 1]
              /\ UNCHANGED <<mangas, conv, user_data, upd, out, raised, supplied, web>>

\* the rows of another connection's uncommitted transaction
PendingChapters == IF txn.open THEN {txn.chapter} ELSE {}

\* a query that also returned uncommitted rows of other connections
VisibleDirty(rows, pending) == rows \cup pending

\* what a SELECT of the web application's session returns of a table: the
\* committed rows, never the rows another session has only flushed
Visible(rows, pending) == rows

Request(route, pc, id, status, ms, chs) ==
    [route |-> route, pc |-> pc, id |-> id, status |-> status, mangas |-> ms, chapters |-> chs]

\* index (lines 77-82)
Index ==
    /\ web.pc = "done"
    /\ web' = Request("index", "done", 0, 200, Visible(mangas, {}), {})
    /\ UNCHANGED <<store, conv, user_data, imp, upd, out, raised, supplied, txn>>

\* manga_detail, the query at line 87 and the abort at lines 88-89
MangaDetailQuery(id) ==
    /\ web.pc = "done"
    /\ LET found == {m \in Visible(mangas, {}) : m.id = id}
       IN web' = IF found = {} THEN Request("manga_detail", "done", id, 404, {}, {})
                 ELSE Request("manga_detail", "chapters", id, 200, found, {})
    /\ UNCHANGED <<store, conv, user_data, imp, upd, out, raised, supplied, txn>>

\* manga_detail, the load of manga.chapters at lines 90-95 (a second SELECT);
\* the chapters are kept as a set, their display order is not modelled
MangaDetailChapters ==
    /\ web.pc = "chapters"
    /\ web' = [web EXCEPT !.pc = "done",
                          !.chapters = {ch \in Visible(chapters, PendingChapters) :
                                           ch.manga_id = web.id}]
    /\ UNCHANGED <<store, conv, user_data, imp, upd, out, raised, supplied, txn>>

\* chapter_reader (lines 97-104)
ChapterReader(id) ==
    /\ web.pc = "done"
    /\ LET found == {ch \in Visible(chapters, PendingChapters) : ch.id = id}
       IN web' = Request("chapter_reader", "done", id,
                         IF found = {} THEN 404 ELSE 200, {}, found)
    /\ UNCHANGED <<store, conv, user_data, imp, upd, out, raised, supplied, txn>>

\* one import of up to MaxDirs folders, their files enumerated in one order
ReadArchives ==
    { Zip(Concat(names), TRUE,
          [i \in DOMAIN names |-> Dir(names[i], <<b_png, a_jpg, c_JPG, d_jpeg>>)]) :
          names \in FolderOrders }

ReadEnv == Env({}, {}, ReadArchives, BOOLEAN, 1, ImportMaxChapterId, 0)

NextRead ==
    \/ \E c \in Chats, u \in {Admin} : ZipProcessStart(c, u, ReadEnv)
    \/ ZipSkip(ReadEnv)
    \/ ZipFlush(ReadEnv)
    \/ ZipRelay
    \/ ZipCommit(ReadEnv)
    \/ ZipFinish
    \/ Index
    \/ \E id \in 1..MaxMangaId : MangaDetailQuery(id)
    \/ MangaDetailChapters
    \/ \E id \in 1..ImportMaxChapterId : ChapterReader(id)

SpecRead == InitImport /\ [][NextRead]_vars

C15_EveryImageStored ==
    [][ (/\ imp.active
         /\ imp'.active
         /\ imp'.k = imp.k + 1
         /\ ~NoToken(imp.dirs[imp.k]))
        => \E ch \in chapters' \ chapters :
              \A i \in 1..Len(imp.dirs[imp.k].files) :
                 LowerStr(Suffix(imp.dirs[imp.k].files[i])) \in ImageSuffixes
                    => \E p \in pages' :
                          /\ p.chapter_id = ch.id
                          /\ p.file_id = Relay(imp.dirs[imp.k].files[i]) ]_vars

\* a folder name without any digit has no number token
Tokenless(name) == \A i \in 1..Len(name) : ~IsDigit(name[i])

\* whether a folder holds a file the import relays
HasPicked(d) == \E i \in 1..Len(d.files) : d.files[i] \in PickedFiles

\* C16: a folder with images whose name has no number is reported as skipped
\* and creates nothing, and the import goes on to the next folder; an import
\* that finishes has created a chapter for every folder with a number,
\* whether or not a folder without one was among them.
C16_TokenlessSkipped ==
    [][ /\ (imp.active /\ imp.k <= Len(imp.dirs) /\ Tokenless(imp.dirs[imp.k].name))
           => (/\ store' = store
               /\ out' = Append(out, Msg("skipping", imp.dirs[imp.k].name))
               /\ imp'.active
               /\ imp'.k = imp.k + 1
               /\ imp'.dirs = imp.dirs
               /\ conv' = conv)
        /\ (imp.active /\ ~imp'.active /\ Said("finished")')
           => \A i \in 1..Len(imp.dirs) :
                 (~Tokenless(imp.dirs[i].name) /\ HasPicked(imp.dirs[i]))
                    => \E ch \in chapters' :
                          /\ ch.chapter_number = chapter_num(imp.dirs[i])
                          /\ Len(PagesOf(pages', ch.id)) = Cardinality(PickedFiles) ]_vars

\* C16 witness: of the folders Chapter 2 and extras, extras was reported as
\* skipped, chapter 2.0 was created and the import has finished.
C16_Witness ==
    /\ upd.data = Ch(<<"2">>) \o <<"e", "x", "t", "r", "a", "s">>
    /\ Said("skipping")
    /\ Said("finished")
    /\ chapters = {[id |-> 1, manga_id |-> 1, chapter_number |-> <<"2", ".", "0">>]}
    /\ PagesOf(pages, 1) = <<Relay(a_jpg), Relay(b_png), Relay(c_JPG)>>

----------------------------------------------------------------------------
(* Properties of the conversation's idle states, checked under Spec.       *)

\* the admin has no flow under way in any chat: each conversation is ended
\* or at the main menu
AdminIdle == \A c \in Chats : conv[<<c, Admin>>] \in {END, START_ROUTES}

\* C17 (as claimed): whenever the admin has no flow under way, user_data is
\* empty.
C17_IdleHasNoFields == AdminIdle => user_data[Admin] = Empty

----------------------------------------------------------------------------
(* Adding chapters to a stored comic, by hand and by archive, in one chat. *)

ChaptersEnv ==
    Env({<<"2">>}, {<<"P", "1">>}, Archives, {FALSE}, 1, ManualMaxChapterId, MaxPages)

InitChapters ==
    /\ mangas = {StoredManga(1)}
    /\ chapters = {}
    /\ pages = {}
    /\ conv = [key \in Chats \X Users |-> END]
    /\ user_data = [u \in Users |-> Empty]
    /\ imp = Idle
    /\ upd = NoUpdate
    /\ out = <<>>
    /\ raised = FALSE
    /\ supplied = [u \in Users |-> Empty]
    /\ txn = NoTxn
    /\ web = NoRequest

NextChapters ==
    \/ \E c \in {"group"}, u \in {Admin} :
          \/ Start(c, u)
          \/ ManageMangaStart(c, u)
          \/ ManageActionMenu(c, u, ChaptersEnv)
          \/ AddChapterMethod(c, u)
          \/ AddChapterManualStart(c, u)
          \/ AddChapterPagesStart(c, u, ChaptersEnv)
          \/ AddChapterPageCollect(c, u, ChaptersEnv)
          \/ AddChapterManualSave(c, u, ChaptersEnv)
          \/ AddChapterZipStart(c, u)
          \/ ZipProcessStart(c, u, ChaptersEnv)
          \/ EndConversation(c, u)
    \/ ZipFolder(ChaptersEnv)
    \/ ZipFinish

SpecChapters == InitChapters /\ [][NextChapters]_vars

\* C18 (as claimed): no comic has two chapters with the same chapter number.
C18_NumbersUnique ==
    \A c1, c2 \in chapters :
        (c1.manga_id = c2.manga_id /\ c1.chapter_number = c2.chapter_number) => c1 = c2

\* the update handled last ended a creation, a manual save or an import
\* with its success message (followed by the main menu)
Committed == Said("created") \/ Said("chapter_saved") \/ Said("finished")

\* C19 (as claimed): when the admin presses "Add New Comic" on the menu
\* shown after a commit, in the same chat, the conversation moves to the
\* title prompt.
C19_MenuAfterCommitWorks ==
    [][ (/\ ~imp.active
         /\ Committed
         /\ upd.user = Admin
         /\ upd'.user = Admin
         /\ upd'.chat = upd.chat
         /\ upd'.kind = "add_manga")
        => conv'[<<upd'.chat, Admin>>] = ADD_MANGA_TITLE ]_vars

----------------------------------------------------------------------------
(* Properties of the delete confirmation, checked under SpecDelete.        *)

\* the update handled in this step answers "NO, GO BACK" for comic DecVal(upd'.data)
KeepStep ==
    /\ ~imp.active
    /\ upd'.kind = "manga_"
    /\ conv[<<upd'.chat, upd'.user>>] = DELETE_MANGA_CONFIRM
    /\ IsInt(upd'.data)
    /\ HasManga(DecVal(upd'.data))

\* what "no" does: the action menu of the same comic, nothing deleted
KeptAsIs ==
    /\ conv'[<<upd'.chat, upd'.user>>] = MANAGE_ACTION_MENU
    /\ out' = <<Msg("managing", upd'.data)>>
    /\ user_data'[upd'.user]["manga_id"] = DecVal(upd'.data)
    /\ store' = store

\* C20 (as claimed): "yes" for a stored comic deletes it and leads to the
\* comic selection, also when it was the last comic; "no" leads to the
\* action menu of the same comic and changes nothing.
C20_YesAlwaysToSelection ==
    [][ /\ (DeleteStep /\ HasManga(DecVal(upd'.data)) /\ ~Said("error")')
           => (/\ ~\E m \in mangas' : m.id = DecVal(upd'.data)
               /\ conv'[<<upd'.chat, upd'.user>>] = MANAGE_SELECT_MANGA)
        /\ KeepStep => KeptAsIs ]_vars

\* C20 (amended): "yes" for a stored comic deletes it, unless the database
\* fails, and leads to the comic selection when comics remain and to the
\* main menu when none is left; "no" for a stored comic leads to the action
\* menu of the same comic and changes nothing.
C20_YesToSelectionOrMenu ==
    [][ /\ (DeleteStep /\ HasManga(DecVal(upd'.data)) /\ ~Said("error")')
           => ~\E m \in mangas' : m.id = DecVal(upd'.data)
        /\ DeleteStep
           => conv'[<<upd'.chat, upd'.user>>] =
                 IF mangas' = {} THEN START_ROUTES ELSE MANAGE_SELECT_MANGA
        /\ KeepStep => KeptAsIs ]_vars

\* C20 witness: the last comic has been deleted; the conversation is at the
\* main menu.
C20_Witness ==
    /\ upd.kind = "delmanga_yes_"
    /\ Said("comic_deleted")
    /\ Said("no_comics")
    /\ mangas = {}
    /\ conv[LastKey] = START_ROUTES

----------------------------------------------------------------------------
(* Referential integrity of the tables, checked under SpecShared.          *)

\* C21 (as claimed): every chapter row belongs to a stored comic and every
\* page row to a stored chapter.
C21_NoOrphans ==
    /\ \A ch \in chapters : \E m \in mangas : m.id = ch.manga_id
    /\ \A p \in pages : \E ch \in chapters : ch.id = p.chapter_id

----------------------------------------------------------------------------
(* The manual chapter flow, checked under SpecShared and SpecChapters.     *)

\* the update handled in this step is /done after the page images
SaveStep ==
    /\ ~imp.active
    /\ upd'.kind = "done"
    /\ conv[<<upd'.chat, upd'.user>>] = ADD_CHAPTER_PAGES

\* C22: when /done saves a chapter, exactly one chapter row is added; it
\* belongs to the comic whose action menu the admin opened in this
\* conversation, carries the number typed in this conversation, and its pages
\* are the photos sent in this conversation since that number, in the order
\* sent, numbered 1..n; no other row is added.
C22_ChapterAsEntered ==
    [][ (SaveStep /\ Said("chapter_saved")') =>
          LET h == supplied[upd'.user][upd'.chat]
          IN \E ch \in chapters' :
                /\ chapters' = chapters \cup {ch}
                /\ ch \notin chapters
                /\ ch.manga_id = h["manga_id"]
                /\ ch.chapter_number = h["chapter_number"]
                /\ pages' \ pages = PageRows(pages', ch.id)
                /\ PageRows(pages', ch.id) = NewPages(ch.id, h["pages"]) ]_vars

----------------------------------------------------------------------------
(* Deleting a chapter: two stored comics, the first with two chapters, the *)
(* admin in two chats.                                                     *)

ExtraChapter ==
    [id |-> StoredMangas + 1, manga_id |-> 1, chapter_number |-> DecStr(StoredMangas + 1)]

DeleteChapterEnv == Env({}, {}, {}, BOOLEAN, StoredMangas, StoredMangas + 1, 0)

InitDeleteChapter ==
    /\ mangas = {StoredManga(i) : i \in 1..StoredMangas}
    /\ chapters = {StoredChapter(i) : i \in 1..StoredMangas} \cup {ExtraChapter}
    /\ pages = {StoredPage(i) : i \in 1..(StoredMangas + 1)}
    /\ conv = [key \in Chats \X Users |-> END]
    /\ user_data = [u \in Users |-> Empty]
    /\ imp = Idle
    /\ upd = NoUpdate
    /\ out = <<>>
    /\ raised = FALSE
    /\ supplied = [u \in Users |-> Empty]
    /\ txn = NoTxn
    /\ web = NoRequest

NextDeleteChapter ==
    \E c \in Chats, u \in {Admin} :
        \/ Start(c, u)
        \/ ManageMangaStart(c, u)
        \/ ManageActionMenu(c, u, DeleteChapterEnv)
        \/ DeleteChapterSelect(c, u)
        \/ DeleteChapterConfirm(c, u, DeleteChapterEnv)
        \/ EndConversation(c, u)

SpecDeleteChapter == InitDeleteChapter /\ [][NextDeleteChapter]_vars

\* the update handled in this step picks chapter DecVal(upd'.data) for deletion
ChapterStep ==
    /\ ~imp.active
    /\ upd'.kind = "delchap_"
    /\ conv[<<upd'.chat, upd'.user>>] = DELETE_CHAPTER_SELECT
    /\ IsInt(upd'.data)

\* C23: picking a stored chapter that the database deletes removes that
\* chapter and its pages and no other row, keeps manga_id in the session and
\* leads to the action menu of the comic opened in this conversation; picking
\* a chapter that is not stored is answered "not found" and changes no row.
C23_DeleteChapterExact ==
    [][ ChapterStep =>
          LET cid == DecVal(upd'.data)
              u == upd'.user
              opened == supplied[u][upd'.chat]["manga_id"]
          IN IF HasChapter(cid)
             THEN Said("chapter_deleted")' =>
                    /\ chapters' = {ch \in chapters : ch.id # cid}
                    /\ pages' = {p \in pages : p.chapter_id # cid}
                    /\ mangas' = mangas
                    /\ Has(user_data'[u], "manga_id")
                    /\ user_data'[u]["manga_id"] = opened
                    /\ conv'[<<upd'.chat, u>>] = MANAGE_ACTION_MENU
                    /\ Said("managing")'
                    /\ ~raised'
             ELSE /\ store' = store
                  /\ Said("chapter_not_found")' ]_vars

====
